---- MODULE Spec2Model ----
(***************************************************************************)
(* Lunaris: admission (POST /analyze), the Job Store (scan_jobs,           *)
(* scan_results), the in-flight dedup key, the BullMQ scan queue, the      *)
(* worker (processScanJob and its 'failed' handler) and DELETE /scan/:id.  *)
(*                                                                         *)
(* Time is counted in units of ten minutes: every event of a behaviour     *)
(* happens at a multiple of ten minutes, so the ten-minute dedup window    *)
(* and the ten-minute key TTL are one unit each.                           *)
(*                                                                         *)
(* A hostname is the sequence of its dot-separated labels; an IPv4 address *)
(* is the sequence of its four octets; an IPv6 address is the sequence of  *)
(* the characters of its text form.                                        *)
(***************************************************************************)
EXTENDS Integers, Sequences, FiniteSets, TLC

\* ---------------------------------------------------------------- bounds
MaxReqs == 2

MaxSubmits == 2

MaxCacheSubmits == 3

MaxTime == 2

MaxDeletes == 1

\* Submissions in the fair-scheduling scenario
MaxLeaseSubmits == 1

\* Sub-pages of a crawl
MaxSubPages == 2

\* Trackers detected on a site
MaxTrackers == 13

\* Pages asked of GET /scans, and Jobs matching the filter
MaxPage == 4

MaxTotal == 41

\* ------------------------------------------------------ program constants
DEDUP_WINDOW_MS == 1

DEDUP_TTL_S == 1

WORKER_CONCURRENCY == 2

attempts == 3

maxStalledCount == 1

\* No timestamp (the clock starts at 1).
NULL == 0

\* ------------------------------------------------------------- hostnames
ExampleCom == <<"example", "com">>

ExampleInvalid == <<"example", "invalid">>

MetadataHost == <<"metadata", "google", "internal">>

IntranetHost == <<"wiki", "example", "com">>

Localhost == <<"localhost">>

Loopback == <<"127", "0", "0", "1">>

Hostnames == {ExampleCom, ExampleInvalid, MetadataHost, IntranetHost, Localhost, Loopback}

Schemes == {"none", "http", "https", "ftp", "file", "javascript"}

Digits == {"0", "1", "2", "3", "4", "5", "6", "7", "8", "9"}

\* Decimal labels of the model's hostnames that denote an octet 0..255.
OctetLabels == {"0", "1", "10", "127", "169", "254"}

\* node:net isIP on a hostname that new URL() produced: a dotted quad of
\* decimal octets.  An IPv6 literal keeps its brackets in URL.hostname, and
\* isIP of a bracketed string is 0.
isIP(hostname) ==
    /\ Len(hostname) = 4
    /\ \A i \in 1..4 : hostname[i] \in OctetLabels

\* (mutant) http:// prepended when the input has no scheme
ParsedUrl_HttpDefault(raw) ==
    IF raw.scheme \in {"http", "https"}
    THEN [protocol |-> raw.scheme, hostname |-> raw.host]
    ELSE IF raw.scheme = "none"
         THEN [protocol |-> "http", hostname |-> raw.host]
         ELSE [protocol |-> "https", hostname |-> <<raw.scheme>>]

\* new URL(input) after the scheme test of normalizeUrl: an input without
\* http(s):// in front gets https:// prepended, so that "ftp://host.tld"
\* is parsed as https://ftp://host.tld, whose hostname is "ftp" (the
\* authority ends at the second colon, the rest is the path).
ParsedUrl(raw) ==
    IF raw.scheme \in {"http", "https"}
    THEN [protocol |-> raw.scheme, hostname |-> raw.host]
    ELSE IF raw.scheme = "none"
         THEN [protocol |-> "https", hostname |-> raw.host]
         ELSE [protocol |-> "https", hostname |-> <<raw.scheme>>]

\* Whether new URL(input) returns: "https://javascript:x" has a port that is
\* not a number and is refused; "https://ftp://host.tld" and
\* "https://file:///x" have an empty port and parse.
UrlParses(raw) == raw.scheme # "javascript"

Ok(v) == [ok |-> TRUE, value |-> v]

Throw(code) == [ok |-> FALSE, error |-> code]

normalizeUrl(raw) ==
    IF raw.host = <<>> THEN Throw("URL_EMPTY")
    ELSE IF ~UrlParses(raw) THEN Throw("URL_MALFORMED")
    ELSE LET parsed == ParsedUrl(raw) IN
         IF parsed.protocol \notin {"http", "https"} THEN Throw("URL_INVALID_PROTOCOL")
         ELSE IF Len(parsed.hostname) < 1 THEN Throw("URL_INVALID_HOSTNAME")
         ELSE IF Len(parsed.hostname) < 2 THEN Throw("URL_NO_TLD")
         ELSE IF isIP(parsed.hostname) THEN Throw("URL_RAW_IP")
         ELSE Ok(parsed)

\* The canonical URL as a raw input again (crawlWebsite normalizes the
\* canonical URL a second time).
HrefAsRaw(url) == [scheme |-> url.protocol, host |-> url.hostname]

friendlyError(msg) ==
    IF msg = "URL_NO_TLD" THEN "not a real domain"
    ELSE IF msg \in {"URL_MALFORMED", "URL_INVALID_PROTOCOL", "URL_INVALID_HOSTNAME"}
         THEN "malformed"
    ELSE IF msg = "URL_RAW_IP" THEN "not supported"
    ELSE IF msg \in {"DNS_FAILED", "DNS_TIMEOUT"} THEN "could not be resolved"
    ELSE IF msg \in {"SSRF_BLOCKED_HOSTNAME", "SSRF_BLOCKED_PATTERN", "SSRF_PRIVATE_IP"}
         THEN "private or internal"
    ELSE IF msg = "UNREACHABLE" THEN "could not be reached"
    ELSE "invalid"

\* ------------------------------------------------------ DNS (environment)
Addr4(a, b, c, d) == [family |-> 4, octets |-> <<a, b, c, d>>, text |-> <<>>]

Addr6(chars) == [family |-> 6, octets |-> <<>>, text |-> chars]

PublicAddress == Addr4(93, 184, 216, 34)

MetadataAddress == Addr4(169, 254, 169, 254)

PrivateAddress == Addr4(10, 0, 0, 5)

DnsAddress(a) == [kind |-> "address", address |-> a]

DnsError(code) == [kind |-> code, address |-> Addr4(0, 0, 0, 0)]

\* What dns.lookup can answer for each hostname of the model.
DnsOutcomes(hostname) ==
    IF hostname = ExampleCom THEN {DnsAddress(PublicAddress)}
    ELSE IF hostname = IntranetHost THEN {DnsAddress(PrivateAddress)}
    ELSE IF hostname = MetadataHost
         THEN {DnsAddress(MetadataAddress), DnsError("ENOTFOUND"), DnsError("ETIMEOUT")}
    ELSE {DnsError("ENOTFOUND")}

resolveDns(outcome) ==
    IF outcome.kind = "address" THEN Ok(outcome.address)
    ELSE IF outcome.kind = "ETIMEOUT" THEN Throw("DNS_TIMEOUT")
    ELSE Throw("DNS_FAILED")

\* ------------------------------------------------------------ SSRF guard
HexDigits == Digits \cup {"a", "b", "c", "d", "e", "f"}

PRIVATE_IP_PATTERNS(address) ==
    IF address.family = 4
    THEN LET a == address.octets[1]
             b == address.octets[2]
         IN \/ a = 127
            \/ a = 10
            \/ (a = 192 /\ b = 168)
            \/ (a = 172 /\ b \in 16..31)
            \/ (a = 169 /\ b = 254)
            \/ (a = 100 /\ b \in 64..127)
            \/ a = 0
    ELSE LET t == address.text IN
            \/ t = <<":", ":", "1">>
            \/ (Len(t) >= 5 /\ t[1] = "f" /\ t[2] = "c"
                 /\ t[3] \in HexDigits /\ t[4] \in HexDigits /\ t[5] = ":")
            \/ (Len(t) >= 5 /\ t[1] = "f" /\ t[2] = "e" /\ t[3] \in {"8", "9", "a", "b"}
                 /\ t[4] \in HexDigits /\ t[5] = ":")

BLOCKED_HOSTNAMES ==
    {<<"localhost">>, <<"0", "0", "0", "0">>, MetadataHost, <<"169", "254", "169", "254">>}

BLOCKED_HOSTNAME_PATTERNS(hostname) ==
    /\ Len(hostname) >= 2
    /\ hostname[Len(hostname)] \in {"local", "internal", "corp", "lan", "intranet"}

assertNotPrivate(hostname, resolvedAddress) ==
    IF hostname \in BLOCKED_HOSTNAMES THEN Throw("SSRF_BLOCKED_HOSTNAME")
    ELSE IF BLOCKED_HOSTNAME_PATTERNS(hostname) THEN Throw("SSRF_BLOCKED_PATTERN")
    ELSE IF PRIVATE_IP_PATTERNS(resolvedAddress) THEN Throw("SSRF_PRIVATE_IP")
    ELSE Ok(resolvedAddress)

\* crawlWebsite up to the browser launch: normalizeUrl, resolveDns,
\* assertNotPrivate, in this order; then the crawl itself, which either
\* returns a crawl record or throws UNREACHABLE (reachable is the site's
\* answer, an input).
crawlWebsite(url, outcome, reachable) ==
    LET n == normalizeUrl(HrefAsRaw(url)) IN
    IF ~n.ok THEN Throw(n.error)
    ELSE LET dnsResult == resolveDns(outcome) IN
         IF ~dnsResult.ok THEN Throw(dnsResult.error)
         ELSE LET g == assertNotPrivate(n.value.hostname, dnsResult.value) IN
              IF ~g.ok THEN Throw(g.error)
              ELSE IF ~reachable THEN Throw("UNREACHABLE")
              ELSE Ok("crawlData")

\* ------------------------------------------------------------------ state
Reqs == 1..MaxReqs

Slots == 1..WORKER_CONCURRENCY

\* What clients submit to POST /analyze.
RawInputs ==
    { [scheme |-> "none", host |-> ExampleCom],
      [scheme |-> "https", host |-> ExampleCom],
      [scheme |-> "none", host |-> MetadataHost],
      [scheme |-> "none", host |-> IntranetHost],
      [scheme |-> "none", host |-> Localhost] }

\* The submissions of the worker scenarios: a site that can be crawled and
\* one whose crawl always throws.
WorkerInputs ==
    { [scheme |-> "none", host |-> ExampleCom],
      [scheme |-> "none", host |-> IntranetHost] }

NoUrl == [protocol |-> "", hostname |-> <<>>]

NoReply == [url |-> NoUrl, code |-> 0, jobId |-> 0, status |-> "", cached |-> FALSE,
            error |-> ""]

IdleReq == [pc |-> "idle", url |-> NoUrl, lockAcquired |-> FALSE, job |-> 0]

VARIABLES
    now,         \* the clock (Date.now()), in units of ten minutes
    reqs,        \* POST /analyze requests in progress: position and locals of each handler
    submitted,   \* POST /analyze requests received so far
    reply,       \* the response sent last by POST /analyze
    scanJobs,    \* table scan_jobs: id -> row
    scanResults, \* table scan_results: scanJobId -> number of rows
    nextId,      \* ids handed out so far (UUIDs are never reused)
    redisKeys,   \* dedup:<url> keys of Redis: url -> expiry time
    scanQueue,   \* BullMQ queue 'scan': queue job id -> entry
    dlq,         \* BullMQ queue 'scan-dlq': the records added, in order
    slots,       \* the worker's concurrent executions of processScanJob
    del,         \* DELETE /scan/:id request in progress
    deletes,     \* DELETE requests made so far
    env,         \* the environment of this behaviour: the request bodies clients
                 \* send (inputs), how many (quota), and whether the sites crawled
                 \* answer (sites)
    input,       \* a service function examined on its own: what it is given
    output,      \* ... and what it has produced so far
    metrics,     \* the in-process metrics registry: job timers and duration histogram
    shutdown     \* how far the graceful shutdown of the process has got

vars == <<now, reqs, submitted, reply, scanJobs, scanResults, nextId, redisKeys, scanQueue, dlq, slots, del,
          deletes, env, input, output, metrics, shutdown>>

IdleSlot == [pc |-> "idle", jobId |-> 0, url |-> NoUrl, err |-> ""]

NoDelete == [pc |-> "idle", id |-> 0]

\* The histogram's buckets, and the registry of a process that has just started
Buckets == {"under_10s", "under_30s", "under_60s", "under_90s", "over_90s"}

NoMetrics == [activeJobTimers |-> <<>>, durationBuckets |-> [b \in Buckets |-> 0]]

Init ==
    /\ env = [inputs |-> RawInputs, quota |-> MaxSubmits, sites |-> BOOLEAN]
    /\ now = 1
    /\ reqs = [r \in Reqs |-> IdleReq]
    /\ submitted = 0
    /\ reply = NoReply
    /\ scanJobs = <<>>
    /\ scanResults = <<>>
    /\ nextId = 0
    /\ redisKeys = <<>>
    /\ scanQueue = <<>>
    /\ dlq = <<>>
    /\ slots = [s \in Slots |-> IdleSlot]
    /\ del = NoDelete
    /\ deletes = 0
    /\ metrics = NoMetrics
    /\ shutdown = "up"
    /\ input = <<>>
    /\ output = <<>>

\* ------------------------------------------------------------- Job Store
\* A row of scan_jobs.  Ids are handed out in creation order, so that the
\* order of createdAt is the order of the ids.
Row(url, status, errorMessage, completedAt) ==
    [targetUrl |-> url, status |-> status, errorMessage |-> errorMessage,
     completedAt |-> completedAt]

Ids == DOMAIN scanJobs

\* db.scanJob.findFirst({where: {targetUrl, status: 'SUCCESS',
\* completedAt: {gte: dedupCutoff}}}): the rows the where clause selects.
RecentSuccess(url, dedupCutoff) ==
    {id \in Ids : /\ scanJobs[id].targetUrl = url
                  /\ scanJobs[id].status = "SUCCESS"
                  /\ scanJobs[id].completedAt # NULL
                  /\ scanJobs[id].completedAt >= dedupCutoff}

\* (mutant) findFirst without the orderBy
FirstByCompletedAtDesc_Unordered(S) == S

\* orderBy: {completedAt: 'desc'}: the rows findFirst may return (rows
\* with equal keys come in no specified order).
FirstByCompletedAtDesc(S) ==
    {id \in S : \A other \in S : scanJobs[other].completedAt <= scanJobs[id].completedAt}

\* db.scanJob.findFirst({where: {targetUrl, status: {in: ['PENDING', 'RUNNING']}}})
ActiveJobs(url) ==
    {id \in Ids : /\ scanJobs[id].targetUrl = url
                  /\ scanJobs[id].status \in {"PENDING", "RUNNING"}}

\* orderBy: {createdAt: 'desc'}
FirstByCreatedAtDesc(S) == {id \in S : \A other \in S : other <= id}

\* --------------------------------------------------------- Redis dedup key
KeyPresent(url) == url \in DOMAIN redisKeys /\ now < redisKeys[url]

\* redis.set(dedupKey, '1', 'EX', DEDUP_TTL_S, 'NX') when the key is absent
SetKey(url) == (url :> (now + DEDUP_TTL_S)) @@ redisKeys

\* redis.del(dedupKey)
DelKey(url) == [u \in DOMAIN redisKeys \ {url} |-> redisKeys[u]]

\* ------------------------------------------------------------ POST /analyze
\* reply.status(code).send(...): the handler is over, its locals are gone
Respond(r, resp) ==
    /\ reqs' = [reqs EXCEPT ![r] = IdleReq]
    /\ reply' = resp

\* 1. URL normalization + validation, 2. DB-level deduplication
Submit(r, raw) ==
    /\ reqs[r].pc = "idle"
    /\ \A q \in Reqs : q < r => reqs[q].pc # "idle"
    /\ submitted < env.quota
    /\ submitted' = submitted + 1
    /\ LET n == normalizeUrl(raw) IN
       IF ~n.ok
       THEN Respond(r, [NoReply EXCEPT !.code = 400, !.error = friendlyError(n.error)])
       ELSE LET cleanUrl == n.value
                recent == RecentSuccess(cleanUrl, now - DEDUP_WINDOW_MS)
            IN IF recent # {}
               THEN \E recentJob \in FirstByCompletedAtDesc(recent) :
                       Respond(r, [NoReply EXCEPT !.url = cleanUrl, !.code = 200,
                                                  !.jobId = recentJob, !.status = "SUCCESS",
                                                  !.cached = TRUE])
               ELSE /\ reqs' = [reqs EXCEPT ![r].pc = "lock", ![r].url = cleanUrl]
                    /\ reply' = reply
    /\ UNCHANGED <<now, scanJobs, scanResults, nextId, redisKeys, scanQueue, dlq, slots, del, deletes, env, input, output, metrics, shutdown>>

\* 3. Redis dedup lock (SET NX)
AcquireLock(r) ==
    /\ reqs[r].pc = "lock"
    /\ IF ~KeyPresent(reqs[r].url)
       THEN /\ redisKeys' = SetKey(reqs[r].url)
            /\ reqs' = [reqs EXCEPT ![r].pc = "create", ![r].lockAcquired = TRUE]
       ELSE /\ redisKeys' = redisKeys
            /\ reqs' = [reqs EXCEPT ![r].pc = "findpending"]
    /\ UNCHANGED <<now, submitted, reply, scanJobs, scanResults, nextId, scanQueue, dlq, slots, del, deletes, env, input, output, metrics, shutdown>>

\* if (!lockAcquired): look for the job of the request that holds the lock
FindPending(r) ==
    /\ reqs[r].pc = "findpending"
    /\ LET pending == ActiveJobs(reqs[r].url) IN
       IF pending # {}
       THEN \E pendingJob \in FirstByCreatedAtDesc(pending) :
               Respond(r, [NoReply EXCEPT !.url = reqs[r].url, !.code = 202,
                                          !.jobId = pendingJob,
                                          !.status = scanJobs[pendingJob].status])
       ELSE /\ reqs' = [reqs EXCEPT ![r].pc = "create"]
            /\ reply' = reply
    /\ UNCHANGED <<now, submitted, scanJobs, scanResults, nextId, redisKeys, scanQueue, dlq, slots, del, deletes, env, input, output, metrics, shutdown>>

\* 4. Create ScanJob in DB (PENDING)
CreateJob(r) ==
    /\ reqs[r].pc = "create"
    /\ nextId' = nextId + 1
    /\ scanJobs' = (nextId' :> Row(reqs[r].url, "PENDING", "", NULL)) @@ scanJobs
    /\ reqs' = [reqs EXCEPT ![r].pc = "enqueue", ![r].job = nextId']
    /\ UNCHANGED <<now, submitted, reply, scanResults, redisKeys, scanQueue, dlq, slots, del, deletes, env, input, output, metrics, shutdown>>

\* db.scanJob.create throws: the catch block deletes the key and answers 500
CreateJobThrows(r) ==
    /\ reqs[r].pc = "create"
    /\ redisKeys' = DelKey(reqs[r].url)
    /\ Respond(r, [NoReply EXCEPT !.url = reqs[r].url, !.code = 500,
                               !.error = "Failed to create scan job"])
    /\ UNCHANGED <<now, submitted, scanJobs, scanResults, nextId, scanQueue, dlq, slots, del, deletes, env, input, output, metrics, shutdown>>

\* A queue job: its state, the attempts made, the times it stalled, the slot
\* whose execution holds its lock (0: none) and its payload.
QueueEntry(jobId, url) ==
    [state |-> "waiting", attemptsMade |-> 0, stalledCounter |-> 0, owner |-> 0,
     data |-> [jobId |-> jobId, url |-> url]]

\* 5. Enqueue to BullMQ, with the DB id as the queue job id
Enqueue(r) ==
    /\ reqs[r].pc = "enqueue"
    /\ scanQueue' = (reqs[r].job :> QueueEntry(reqs[r].job, reqs[r].url)) @@ scanQueue
    /\ Respond(r, [NoReply EXCEPT !.url = reqs[r].url, !.code = 202, !.jobId = reqs[r].job,
                               !.status = "PENDING"])
    /\ UNCHANGED <<now, submitted, scanJobs, scanResults, nextId, redisKeys, dlq, slots, del, deletes, env, input, output, metrics, shutdown>>

\* (mutant) the catch block without the FAILED update
EnqueueThrows_LeavesPending(r) ==
    /\ reqs[r].pc = "enqueue"
    /\ scanJobs' = scanJobs
    /\ reqs' = [reqs EXCEPT ![r].pc = "enqueue_failed"]
    /\ UNCHANGED <<now, submitted, reply, scanResults, nextId, redisKeys, scanQueue, dlq, slots, del, deletes, env, input, output, metrics, shutdown>>

\* scanQueue.add throws: mark the job FAILED (an update of a row that is
\* gone throws, and the error is swallowed)
EnqueueThrows(r) ==
    /\ reqs[r].pc = "enqueue"
    /\ scanJobs' = IF reqs[r].job \in Ids
                   THEN [scanJobs EXCEPT ![reqs[r].job].status = "FAILED",
                                         ![reqs[r].job].errorMessage = "Failed to enqueue scan job",
                                         ![reqs[r].job].completedAt = now]
                   ELSE scanJobs
    /\ reqs' = [reqs EXCEPT ![r].pc = "enqueue_failed"]
    /\ UNCHANGED <<now, submitted, reply, scanResults, nextId, redisKeys, scanQueue, dlq, slots, del, deletes, env, input, output, metrics, shutdown>>

\* (mutant) the catch block without redis.del
ReleaseKey_KeepsKey(r) ==
    /\ reqs[r].pc = "enqueue_failed"
    /\ redisKeys' = redisKeys
    /\ Respond(r, [NoReply EXCEPT !.url = reqs[r].url, !.code = 500,
                               !.error = "Failed to queue scan"])
    /\ UNCHANGED <<now, submitted, scanJobs, scanResults, nextId, scanQueue, dlq, slots, del, deletes, env, input, output, metrics, shutdown>>

\* ... then delete the key and answer 500
ReleaseKey(r) ==
    /\ reqs[r].pc = "enqueue_failed"
    /\ redisKeys' = DelKey(reqs[r].url)
    /\ Respond(r, [NoReply EXCEPT !.url = reqs[r].url, !.code = 500,
                               !.error = "Failed to queue scan"])
    /\ UNCHANGED <<now, submitted, scanJobs, scanResults, nextId, scanQueue, dlq, slots, del, deletes, env, input, output, metrics, shutdown>>

analyzeRoute(r) ==
    \/ \E raw \in env.inputs : Submit(r, raw)
    \/ AcquireLock(r)
    \/ FindPending(r)
    \/ CreateJob(r)
    \/ CreateJobThrows(r)
    \/ Enqueue(r)
    \/ EnqueueThrows(r)
    \/ ReleaseKey(r)

\* ------------------------------------------------------------------ clock
Tick ==
    /\ now <= MaxTime
    /\ now' = now + 1
    /\ redisKeys' = [u \in {k \in DOMAIN redisKeys : redisKeys[k] > now'} |-> redisKeys[u]]
    /\ UNCHANGED <<reqs, submitted, reply, scanJobs, scanResults, nextId, scanQueue, dlq, slots, del, deletes, env, input, output, metrics, shutdown>>

\* ------------------------------------------------------------------ worker
\* The worker takes a waiting queue job: it becomes active, locked by this
\* execution, and processScanJob starts.
Lease(s, j) ==
    /\ shutdown = "up"
    /\ slots[s].pc = "idle"
    /\ j \in DOMAIN scanQueue
    /\ scanQueue[j].state = "waiting"
    /\ scanQueue' = [scanQueue EXCEPT ![j].state = "active", ![j].owner = s]
    /\ slots' = [slots EXCEPT ![s] = [pc |-> "update", jobId |-> scanQueue[j].data.jobId,
                                      url |-> scanQueue[j].data.url, err |-> ""]]
    /\ UNCHANGED <<now, reqs, submitted, reply, scanJobs, scanResults, nextId, redisKeys, dlq, del, deletes, env, input, output, metrics, shutdown>>

HoldsLock(s) ==
    /\ scanQueue[slots[s].jobId].state = "active"
    /\ scanQueue[slots[s].jobId].owner = s

\* processScanJob threw err.  BullMQ counts the attempt and either releases
\* the job for a retry or moves it to failed, then emits 'failed'; the
\* handler adds the DLQ record when isLastAttempt and goes on to the FAILED
\* update.  An execution that lost its lock cannot move the job, and no
\* 'failed' event is emitted for it.
Failed(s, err) ==
    LET j == slots[s].jobId
        attemptsMade == scanQueue[j].attemptsMade + 1
        isLastAttempt == attemptsMade >= attempts
    IN IF HoldsLock(s)
       THEN /\ scanQueue' = [scanQueue EXCEPT ![j].attemptsMade = attemptsMade,
                                              ![j].owner = 0,
                                              ![j].state = IF isLastAttempt THEN "failed"
                                                           ELSE "waiting"]
            /\ IF isLastAttempt
               THEN /\ dlq' = Append(dlq, [originalJobId |-> j, jobId |-> slots[s].jobId,
                                           url |-> slots[s].url, error |-> err,
                                           attempts |-> attemptsMade])
                    /\ slots' = [slots EXCEPT ![s].pc = "markfailed", ![s].err = err]
               ELSE /\ dlq' = dlq
                    /\ slots' = [slots EXCEPT ![s] = IdleSlot]
       ELSE /\ UNCHANGED <<scanQueue, dlq>>
            /\ slots' = [slots EXCEPT ![s] = IdleSlot]

\* db.scanJob.update({where: {id}, data: {status: 'RUNNING', startedAt}});
\* Prisma throws when no row has the id.
UpdateRunning(s) ==
    /\ slots[s].pc = "update"
    /\ IF slots[s].jobId \in Ids
       THEN /\ scanJobs' = [scanJobs EXCEPT ![slots[s].jobId].status = "RUNNING"]
            /\ slots' = [slots EXCEPT ![s].pc = "crawl"]
            /\ UNCHANGED <<scanQueue, dlq>>
       ELSE /\ scanJobs' = scanJobs
            /\ Failed(s, "RecordNotFound")
    /\ UNCHANGED <<now, reqs, submitted, reply, scanResults, nextId, redisKeys, del, deletes, env, input, output, shutdown>>

ResultRows(jobId) == IF jobId \in DOMAIN scanResults THEN scanResults[jobId] ELSE 0

\* (mutant) the insert without the unique index on scanJobId
CanCreateResult_NoUniqueIndex(jobId) == jobId \in Ids

\* db.scanResult.create: the unique index on scanJobId and the foreign key
\* to scan_jobs decide whether the insert is accepted.
CanCreateResult(jobId) == jobId \in Ids /\ ResultRows(jobId) = 0

\* crawlWebsite(url), analyzePrivacy(crawlData), then
\* db.$transaction([scanResult.create, scanJob.update SUCCESS]): both
\* writes or, when one throws, neither.
CrawlAndPersist(s) ==
    /\ slots[s].pc = "crawl"
    /\ \E outcome \in DnsOutcomes(slots[s].url.hostname), reachable \in env.sites :
          LET crawlData == crawlWebsite(slots[s].url, outcome, reachable)
              jobId == slots[s].jobId
          IN IF ~crawlData.ok
             THEN /\ Failed(s, crawlData.error)
                  /\ UNCHANGED <<scanResults, scanJobs>>
             ELSE IF CanCreateResult(jobId)
             THEN /\ scanResults' = (jobId :> (ResultRows(jobId) + 1)) @@ scanResults
                  /\ scanJobs' = [scanJobs EXCEPT ![jobId].status = "SUCCESS",
                                                  ![jobId].completedAt = now]
                  /\ slots' = [slots EXCEPT ![s].pc = "progress"]
                  /\ UNCHANGED <<scanQueue, dlq>>
             ELSE /\ Failed(s, "TransactionFailed")
                  /\ UNCHANGED <<scanResults, scanJobs>>
    /\ UNCHANGED <<now, reqs, submitted, reply, nextId, redisKeys, del, deletes, env, input, output, shutdown>>

\* job.updateProgress(100) succeeds and processScanJob returns: BullMQ moves
\* the job to completed if this execution still holds its lock.
Complete(s) ==
    /\ slots[s].pc = "progress"
    /\ scanQueue' = IF HoldsLock(s)
                    THEN [scanQueue EXCEPT ![slots[s].jobId].state = "completed",
                                           ![slots[s].jobId].owner = 0]
                    ELSE scanQueue
    /\ slots' = [slots EXCEPT ![s] = IdleSlot]
    /\ UNCHANGED <<now, reqs, submitted, reply, scanJobs, scanResults, nextId, redisKeys, dlq, del, deletes, env, input, output, shutdown>>

\* job.updateProgress(100) throws (a Redis error) after the transaction
ProgressThrows(s) ==
    /\ slots[s].pc = "progress"
    /\ Failed(s, "RedisError")
    /\ UNCHANGED <<now, reqs, submitted, reply, scanJobs, scanResults, nextId, redisKeys, del, deletes, env, input, output, shutdown>>

\* scanWorker.on('failed'), last attempt, after the DLQ record:
\* db.scanJob.update FAILED (an update of a missing row throws and the error
\* is logged)
MarkFailed(s) ==
    /\ slots[s].pc = "markfailed"
    /\ scanJobs' = IF slots[s].jobId \in Ids
                   THEN [scanJobs EXCEPT ![slots[s].jobId].status = "FAILED",
                                         ![slots[s].jobId].errorMessage = slots[s].err,
                                         ![slots[s].jobId].completedAt = now]
                   ELSE scanJobs
    /\ slots' = [slots EXCEPT ![s] = IdleSlot]
    /\ UNCHANGED <<now, reqs, submitted, reply, scanResults, nextId, redisKeys, scanQueue, dlq, del, deletes, env, input, output, metrics, shutdown>>

\* The lock of an active job lapses (lockDuration without renewal): the
\* stalled check puts the job back to waiting without counting an attempt,
\* or fails it once it has stalled more than maxStalledCount times.  The
\* execution that held the lock goes on.
Stall(j) ==
    /\ j \in DOMAIN scanQueue
    /\ scanQueue[j].state = "active"
    /\ scanQueue' = [scanQueue EXCEPT
                        ![j].owner = 0,
                        ![j].stalledCounter = @ + 1,
                        ![j].state = IF scanQueue[j].stalledCounter + 1 > maxStalledCount
                                     THEN "failed" ELSE "waiting"]
    /\ UNCHANGED <<now, reqs, submitted, reply, scanJobs, scanResults, nextId, redisKeys, dlq, slots, del, deletes, env, input, output, metrics, shutdown>>

\* The worker as the job store and the queue see it.  The metrics registry
\* is written by processScanJob and by the 'failed' handler and read by
\* neither; it is held fixed here and followed by timedWorker below.
scanWorker(s) ==
    \/ \E j \in DOMAIN scanQueue : Lease(s, j)
    \/ UpdateRunning(s) /\ UNCHANGED metrics
    \/ CrawlAndPersist(s) /\ UNCHANGED metrics
    \/ Complete(s) /\ UNCHANGED metrics
    \/ ProgressThrows(s) /\ UNCHANGED metrics
    \/ MarkFailed(s)

\* -------------------------------------------------------- DELETE /scan/:id
\* db.scanJob.findUnique: 404 when there is no row, 409 when it is RUNNING
DeleteRead(id) ==
    /\ del.pc = "idle"
    /\ deletes < MaxDeletes
    /\ deletes' = deletes + 1
    /\ del' = IF id \in Ids /\ scanJobs[id].status # "RUNNING"
              THEN [pc |-> "delete", id |-> id]
              ELSE NoDelete
    /\ UNCHANGED <<now, reqs, submitted, reply, scanJobs, scanResults, nextId, redisKeys, scanQueue, dlq, slots, env, input, output, metrics, shutdown>>

\* db.scanJob.delete({where: {id}}); the foreign key cascades to the result
DeleteRow ==
    /\ del.pc = "delete"
    /\ scanJobs' = [i \in Ids \ {del.id} |-> scanJobs[i]]
    /\ scanResults' = [i \in DOMAIN scanResults \ {del.id} |-> scanResults[i]]
    /\ del' = NoDelete
    /\ UNCHANGED <<now, reqs, submitted, reply, nextId, redisKeys, scanQueue, dlq, slots, deletes, env, input, output, metrics, shutdown>>

scanRoutes ==
    \/ \E id \in 1..nextId : DeleteRead(id)
    \/ DeleteRow

\* ---------------------------------------------------------- specification
Next ==
    \/ \E r \in Reqs : analyzeRoute(r)
    \/ \E s \in Slots : scanWorker(s)
    \/ \E j \in DOMAIN scanQueue : Stall(j)
    \/ scanRoutes
    \/ Tick

Spec == Init /\ [][Next]_vars

\* Admission against the clock: submissions of every kind, the worker
\* without lock lapses, no deletions.
NextIngress ==
    \/ \E r \in Reqs : analyzeRoute(r)
    \/ \E s \in Slots : scanWorker(s)
    \/ Tick

SpecIngress == Init /\ [][NextIngress]_vars

\* The DB-level cache: more submissions, of one site under three
\* spellings, against the clock; the site answers every crawl.
CacheInputs ==
    { [scheme |-> "none", host |-> ExampleCom],
      [scheme |-> "https", host |-> ExampleCom],
      [scheme |-> "http", host |-> ExampleCom] }

InitCache ==
    /\ env = [inputs |-> CacheInputs, quota |-> MaxCacheSubmits, sites |-> {TRUE}]
    /\ now = 1
    /\ reqs = [r \in Reqs |-> IdleReq]
    /\ submitted = 0
    /\ reply = NoReply
    /\ scanJobs = <<>>
    /\ scanResults = <<>>
    /\ nextId = 0
    /\ redisKeys = <<>>
    /\ scanQueue = <<>>
    /\ dlq = <<>>
    /\ slots = [s \in Slots |-> IdleSlot]
    /\ del = NoDelete
    /\ deletes = 0
    /\ metrics = NoMetrics
    /\ shutdown = "up"
    /\ input = <<>>
    /\ output = <<>>

NextCache ==
    \/ \E r \in Reqs, raw \in env.inputs : Submit(r, raw)
    \/ \E r \in Reqs : AcquireLock(r)
    \/ \E r \in Reqs : FindPending(r)
    \/ \E r \in Reqs : CreateJob(r)
    \/ \E r \in Reqs : Enqueue(r)
    \/ \E r \in Reqs : EnqueueThrows(r)
    \/ \E r \in Reqs : ReleaseKey(r)
    \/ \E s \in Slots, j \in DOMAIN scanQueue : Lease(s, j)
    \/ \E s \in Slots : UpdateRunning(s) /\ UNCHANGED metrics
    \/ \E s \in Slots : CrawlAndPersist(s) /\ UNCHANGED metrics
    \/ \E s \in Slots : Complete(s) /\ UNCHANGED metrics
    \/ Tick

SpecCache == InitCache /\ [][NextCache]_vars

\* The worker against the Job Store: attempts, retries, lock lapses and
\* deletions, with the clock standing still (no step of the worker or of
\* DELETE /scan/:id reads it).
InitWorker ==
    /\ env = [inputs |-> WorkerInputs, quota |-> MaxSubmits, sites |-> BOOLEAN]
    /\ now = 1
    /\ reqs = [r \in Reqs |-> IdleReq]
    /\ submitted = 0
    /\ reply = NoReply
    /\ scanJobs = <<>>
    /\ scanResults = <<>>
    /\ nextId = 0
    /\ redisKeys = <<>>
    /\ scanQueue = <<>>
    /\ dlq = <<>>
    /\ slots = [s \in Slots |-> IdleSlot]
    /\ del = NoDelete
    /\ deletes = 0
    /\ metrics = NoMetrics
    /\ shutdown = "up"
    /\ input = <<>>
    /\ output = <<>>

NextWorker ==
    \/ \E r \in Reqs : analyzeRoute(r)
    \/ \E s \in Slots : scanWorker(s)
    \/ \E j \in DOMAIN scanQueue : Stall(j)
    \/ scanRoutes

SpecWorker == InitWorker /\ [][NextWorker]_vars

\* One Job through the queue under fair scheduling: the request handler and
\* the worker's executions always get to take their next step; lock lapses
\* and the site's answers are up to the environment.
InitLease ==
    /\ env = [inputs |-> WorkerInputs, quota |-> MaxLeaseSubmits, sites |-> BOOLEAN]
    /\ now = 1
    /\ reqs = [r \in Reqs |-> IdleReq]
    /\ submitted = 0
    /\ reply = NoReply
    /\ scanJobs = <<>>
    /\ scanResults = <<>>
    /\ nextId = 0
    /\ redisKeys = <<>>
    /\ scanQueue = <<>>
    /\ dlq = <<>>
    /\ slots = [s \in Slots |-> IdleSlot]
    /\ del = NoDelete
    /\ deletes = 0
    /\ metrics = NoMetrics
    /\ shutdown = "up"
    /\ input = <<>>
    /\ output = <<>>

\* The steps of a request that has been received
analyzeRouteProceeds(r) ==
    \/ AcquireLock(r)
    \/ CreateJob(r)
    \/ Enqueue(r)

NextLease ==
    \/ \E r \in Reqs, raw \in env.inputs : Submit(r, raw)
    \/ \E r \in Reqs : analyzeRouteProceeds(r)
    \/ \E s \in Slots : scanWorker(s)
    \/ \E j \in DOMAIN scanQueue : Stall(j)

SpecLease ==
    /\ InitLease
    /\ [][NextLease]_vars
    /\ \A r \in Reqs : WF_vars(analyzeRouteProceeds(r))
    /\ \A s \in Slots : WF_vars(scanWorker(s))

\* ------------------------------------------------------------------ metrics
\* metrics.startJobTimer: activeJobTimers.set(jobId, Date.now())
startJobTimer(m, jobId) ==
    [m EXCEPT !.activeJobTimers = (jobId :> now) @@ @]

\* The buckets a job started at `start` can fall into when it ends now: the
\* clock counts ten-minute units, so only a job that is two units old is
\* known to have run for more than 90 s.
DurationBuckets(m, jobId) ==
    IF jobId \in DOMAIN m.activeJobTimers /\ now - m.activeJobTimers[jobId] >= 2
    THEN {"over_90s"}
    ELSE Buckets

\* metrics.endJobTimer: nothing when there is no timer for jobId; else the
\* timer is deleted and the bucket of the duration is incremented.
endJobTimer(m, jobId, bucket) ==
    IF jobId \notin DOMAIN m.activeJobTimers
    THEN m
    ELSE [activeJobTimers |-> [k \in DOMAIN m.activeJobTimers \ {jobId} |-> m.activeJobTimers[k]],
          durationBuckets |-> [m.durationBuckets EXCEPT ![bucket] = @ + 1]]

\* metrics.snapshot(), the gauge and the histogram
snapshot(m) ==
    [duration_buckets |-> m.durationBuckets,
     active_jobs |-> Cardinality(DOMAIN m.activeJobTimers)]

\* This step of execution s ended with BullMQ emitting 'failed' (the attempt
\* was counted), so the handler ran up to its first await.
FailedEmitted(s) ==
    scanQueue'[slots[s].jobId].attemptsMade # scanQueue[slots[s].jobId].attemptsMade

\* processScanJob from its first line: startJobTimer, then the RUNNING
\* update; when that throws, the 'failed' handler calls endJobTimer.
TimedUpdateRunning(s) ==
    /\ UpdateRunning(s)
    /\ LET started == startJobTimer(metrics, slots[s].jobId)
       IN \E bucket \in DurationBuckets(started, slots[s].jobId) :
             metrics' = IF FailedEmitted(s)
                        THEN endJobTimer(started, slots[s].jobId, bucket)
                        ELSE started

TimedCrawlAndPersist(s) ==
    /\ CrawlAndPersist(s)
    /\ \E bucket \in DurationBuckets(metrics, slots[s].jobId) :
          metrics' = IF FailedEmitted(s)
                     THEN endJobTimer(metrics, slots[s].jobId, bucket)
                     ELSE metrics

\* updateProgress(100), then metrics.endJobTimer(jobId), then return
TimedComplete(s) ==
    /\ Complete(s)
    /\ \E bucket \in DurationBuckets(metrics, slots[s].jobId) :
          metrics' = endJobTimer(metrics, slots[s].jobId, bucket)

TimedProgressThrows(s) ==
    /\ ProgressThrows(s)
    /\ \E bucket \in DurationBuckets(metrics, slots[s].jobId) :
          metrics' = IF FailedEmitted(s)
                     THEN endJobTimer(metrics, slots[s].jobId, bucket)
                     ELSE metrics

\* The worker with its calls of the metrics registry
timedWorker(s) ==
    \/ \E j \in DOMAIN scanQueue : Lease(s, j)
    \/ TimedUpdateRunning(s)
    \/ TimedCrawlAndPersist(s)
    \/ TimedComplete(s)
    \/ TimedProgressThrows(s)
    \/ MarkFailed(s)

NextMetrics ==
    \/ \E r \in Reqs, raw \in env.inputs : Submit(r, raw)
    \/ \E r \in Reqs : analyzeRouteProceeds(r)
    \/ \E s \in Slots : timedWorker(s)
    \/ \E j \in DOMAIN scanQueue : Stall(j)
    \/ Tick

SpecMetrics == InitLease /\ [][NextMetrics]_vars

\* ----------------------------------------------------------------- shutdown
\* A signal arrives: fastify.close() runs the onClose hook, which calls
\* shutdownWorker(), and scanWorker.close() stops taking jobs.
OnClose ==
    /\ shutdown = "up"
    /\ shutdown' = "shutdownWorker"
    /\ UNCHANGED <<now, reqs, submitted, reply, scanJobs, scanResults, nextId, redisKeys, scanQueue, dlq, slots, del, deletes, env, input, output, metrics>>

\* Executions of processScanJob that scanWorker.close() waits for.  The
\* 'failed' handler is a listener: its promise is nobody's to await.
Processing(s) == slots[s].pc \in {"update", "crawl", "progress"}

\* `await scanWorker.close()` returns once no execution is processing
ShutdownWorker ==
    /\ shutdown = "shutdownWorker"
    /\ \A s \in Slots : ~Processing(s)
    /\ shutdown' = "closeQueue"
    /\ UNCHANGED <<now, reqs, submitted, reply, scanJobs, scanResults, nextId, redisKeys, scanQueue, dlq, slots, del, deletes, env, input, output, metrics>>

\* `await closeQueue()`: scanQueue, dlq and the queue events are closed
CloseQueue ==
    /\ shutdown = "closeQueue"
    /\ shutdown' = "disconnectRedis"
    /\ UNCHANGED <<now, reqs, submitted, reply, scanJobs, scanResults, nextId, redisKeys, scanQueue, dlq, slots, del, deletes, env, input, output, metrics>>

DisconnectRedis ==
    /\ shutdown = "disconnectRedis"
    /\ shutdown' = "disconnectDb"
    /\ UNCHANGED <<now, reqs, submitted, reply, scanJobs, scanResults, nextId, redisKeys, scanQueue, dlq, slots, del, deletes, env, input, output, metrics>>

DisconnectDb ==
    /\ shutdown = "disconnectDb"
    /\ shutdown' = "complete"
    /\ UNCHANGED <<now, reqs, submitted, reply, scanJobs, scanResults, nextId, redisKeys, scanQueue, dlq, slots, del, deletes, env, input, output, metrics>>

\* process.exit(0) after fastify.close(): whatever was still pending in the
\* process is gone.
ProcessExit ==
    /\ shutdown = "complete"
    /\ shutdown' = "exited"
    /\ slots' = [s \in Slots |-> IdleSlot]
    /\ UNCHANGED <<now, reqs, submitted, reply, scanJobs, scanResults, nextId, redisKeys, scanQueue, dlq, del, deletes, env, input, output, metrics>>

\* The connections that have been closed
Closed ==
    CASE shutdown \in {"up", "shutdownWorker", "closeQueue"} -> {}
      [] shutdown = "disconnectRedis" -> {"queue"}
      [] shutdown = "disconnectDb" -> {"queue", "redis"}
      [] OTHER -> {"queue", "redis", "db"}

\* One Job, the worker, and a shutdown at any moment.  Requests are
\* received and stalled jobs are looked for while the process is up.
NextShutdown ==
    \/ \E r \in Reqs, raw \in env.inputs : shutdown = "up" /\ Submit(r, raw)
    \/ \E r \in Reqs : analyzeRouteProceeds(r)
    \/ \E s \in Slots : scanWorker(s)
    \/ \E j \in DOMAIN scanQueue : shutdown = "up" /\ Stall(j)
    \/ OnClose
    \/ ShutdownWorker
    \/ CloseQueue
    \/ DisconnectRedis
    \/ DisconnectDb
    \/ ProcessExit

SpecShutdown == InitLease /\ [][NextShutdown]_vars

\* ----------------------------------------------------------- GET /scan/:id
NoScanResponse == [id |-> 0, code |-> 0, status |-> "", result |-> NULL, errorMessage |-> "absent"]

\* (mutant) the response shaped from the result row whatever the status
getScan_ResultWheneverStored(id) ==
    IF id \notin Ids
    THEN [NoScanResponse EXCEPT !.id = id, !.code = 404]
    ELSE LET job == [scanJobs[id] EXCEPT !.status = IF ResultRows(id) > 0 THEN "SUCCESS" ELSE @]
             base == [NoScanResponse EXCEPT !.id = id, !.code = 200, !.status = job.status]
         IN IF job.status \in {"PENDING", "RUNNING"} THEN base
            ELSE IF job.status = "FAILED"
                 THEN [base EXCEPT !.errorMessage = job.errorMessage]
            ELSE IF ResultRows(id) = 0
                 THEN [base EXCEPT !.code = 500]
            ELSE [base EXCEPT !.result = id]

\* The handler: findUnique with its result, 404, then the response shaped by
\* status; for SUCCESS it reads the fields of job.result, which throws (500)
\* when there is no result row.
getScan(id) ==
    IF id \notin Ids
    THEN [NoScanResponse EXCEPT !.id = id, !.code = 404]
    ELSE LET job == scanJobs[id]
             base == [NoScanResponse EXCEPT !.id = id, !.code = 200, !.status = job.status]
         IN IF job.status \in {"PENDING", "RUNNING"} THEN base
            ELSE IF job.status = "FAILED"
                 THEN [base EXCEPT !.errorMessage = job.errorMessage]
            ELSE IF ResultRows(id) = 0
                 THEN [base EXCEPT !.code = 500]
            ELSE [base EXCEPT !.result = id]

GetScan(id) ==
    /\ output' = getScan(id)
    /\ UNCHANGED <<now, reqs, submitted, reply, scanJobs, scanResults, nextId, redisKeys, scanQueue, dlq, slots,
                   del, deletes, env, input, metrics, shutdown>>

\* One Job through admission, the worker and deletion, polled by a client
InitRead ==
    /\ env = [inputs |-> WorkerInputs, quota |-> MaxLeaseSubmits, sites |-> BOOLEAN]
    /\ now = 1
    /\ reqs = [r \in Reqs |-> IdleReq]
    /\ submitted = 0
    /\ reply = NoReply
    /\ scanJobs = <<>>
    /\ scanResults = <<>>
    /\ nextId = 0
    /\ redisKeys = <<>>
    /\ scanQueue = <<>>
    /\ dlq = <<>>
    /\ slots = [s \in Slots |-> IdleSlot]
    /\ del = NoDelete
    /\ deletes = 0
    /\ metrics = NoMetrics
    /\ shutdown = "up"
    /\ input = <<>>
    /\ output = NoScanResponse

NextRead ==
    \/ \E r \in Reqs, raw \in env.inputs : Submit(r, raw)
    \/ \E r \in Reqs : analyzeRouteProceeds(r)
    \/ \E s \in Slots : scanWorker(s)
    \/ \E j \in DOMAIN scanQueue : Stall(j)
    \/ scanRoutes
    \/ \E id \in 1..(nextId + 1) : GetScan(id)

SpecRead == InitRead /\ [][NextRead]_vars

\* ------------------------------------------------ services on their own
\* While a service function is examined on its own the API server and the
\* worker are idle.
system == <<now, reqs, submitted, reply, scanJobs, scanResults, nextId, redisKeys, scanQueue, dlq, slots,
            del, deletes, env, metrics, shutdown>>

Quiet ==
    /\ env = [inputs |-> {}, quota |-> 0, sites |-> {}]
    /\ metrics = NoMetrics
    /\ shutdown = "up"
    /\ now = 1
    /\ reqs = [r \in Reqs |-> IdleReq]
    /\ submitted = 0
    /\ reply = NoReply
    /\ scanJobs = <<>>
    /\ scanResults = <<>>
    /\ nextId = 0
    /\ redisKeys = <<>>
    /\ scanQueue = <<>>
    /\ dlq = <<>>
    /\ slots = [s \in Slots |-> IdleSlot]
    /\ del = NoDelete
    /\ deletes = 0

SeqsUpTo(S, n) == UNION {[1..k -> S] : k \in 0..n}

\* ----------------------------------------------- validation on its own
ZeroHost == <<"0", "0", "0", "0">>

ImdsHost == <<"169", "254", "169", "254">>

\* Hostnames of private zones
ZoneHosts ==
    {<<"printer", "local">>, <<"vault", "internal">>, <<"build", "corp">>, <<"nas", "lan">>,
     <<"hr", "intranet">>}

\* IPv6 literals as URL.hostname gives them: bracketed, one label, no dot
Ipv6Hosts == {<<"[::1]">>, <<"[2001:db8::1]">>}

ValidationHosts == Hostnames \cup ZoneHosts \cup Ipv6Hosts \cup {ZeroHost, ImdsHost}

\* Every answer dns.lookup can give, whatever the hostname
AnyDnsOutcome ==
    {DnsAddress(PublicAddress), DnsAddress(PrivateAddress), DnsAddress(MetadataAddress),
     DnsError("ENOTFOUND"), DnsError("ETIMEOUT")}

\* The pipeline of one submission as far as the browser launch: normalizeUrl
\* at admission, then crawlWebsite's normalizeUrl, resolveDns and
\* assertNotPrivate.  input is the submitted URL and the resolver's answer;
\* output is the position in the pipeline, the canonical URL and the error
\* that rejected the submission.
InitValidate ==
    /\ Quiet
    /\ input \in [raw : [scheme : Schemes, host : ValidationHosts], outcome : AnyDnsOutcome]
    /\ output = [pc |-> "received", url |-> NoUrl, error |-> ""]

NormalizeInput ==
    /\ output.pc = "received"
    /\ LET cleanUrl == normalizeUrl(input.raw) IN
       output' = IF cleanUrl.ok
                 THEN [output EXCEPT !.pc = "normalized", !.url = cleanUrl.value]
                 ELSE [output EXCEPT !.pc = "rejected", !.error = cleanUrl.error]
    /\ UNCHANGED <<system, input>>

GuardHost ==
    /\ output.pc = "normalized"
    /\ LET crawlData == crawlWebsite(output.url, input.outcome, TRUE) IN
       output' = IF crawlData.ok
                 THEN [output EXCEPT !.pc = "browser"]
                 ELSE [output EXCEPT !.pc = "rejected", !.error = crawlData.error]
    /\ UNCHANGED <<system, input>>

NextValidate ==
    \/ NormalizeInput
    \/ GuardHost

SpecValidate == InitValidate /\ [][NextValidate]_vars

\* ------------------------------------------------ SSRF guard on its own
\* Addresses dns.lookup returns, as it prints them: IPv4 around the edges of
\* the reserved ranges, IPv6 in lower case with :: compression.
GuardAddresses ==
    {Addr4(a, b, 0, 1) : a \in {0, 1, 9, 10, 11, 93, 99, 100, 101, 126, 127, 128, 169, 172, 192},
                         b \in {0, 15, 16, 31, 32, 63, 64, 127, 128, 168, 254}}
    \cup {Addr6(t) : t \in {<<":", ":", "1">>, <<":", ":", "2">>,
                            <<"f", "c", "0", "0", ":", ":", "1">>,
                            <<"f", "d", "1", "2", ":", "3", "4", ":", ":", "1">>,
                            <<"f", "d", "f", "f", ":", ":", "1">>,
                            <<"f", "e", "0", "0", ":", ":", "1">>,
                            <<"f", "e", "8", "0", ":", ":", "1">>,
                            <<"f", "e", "b", "f", ":", ":", "1">>,
                            <<"f", "e", "c", "0", ":", ":", "1">>,
                            <<"f", "b", "f", "f", ":", ":", "1">>,
                            <<"2", "0", "0", "1", ":", "d", "b", "8", ":", ":", "1">>,
                            <<"f", "c", ":", ":", "1">>}}

InitGuard ==
    /\ Quiet
    /\ input \in [hostname : {ExampleCom, IntranetHost}, resolvedAddress : GuardAddresses]
    /\ output = [pc |-> "called", error |-> ""]

ApplyGuard ==
    /\ output.pc = "called"
    /\ LET g == assertNotPrivate(input.hostname, input.resolvedAddress) IN
       output' = IF g.ok THEN [output EXCEPT !.pc = "returned"]
                 ELSE [output EXCEPT !.pc = "threw", !.error = g.error]
    /\ UNCHANGED <<system, input>>

NextGuard == ApplyGuard

SpecGuard == InitGuard /\ [][NextGuard]_vars

\* ---------------------------------------------------------- page crawling
\* What the browser observes when it loads a page: page.goto throws, or it
\* returns a response (or null), the page fires a number of non-data:
\* requests, and the content holds a Chromium error marker or not.
NoResponse == [status |-> NULL, url |-> ""]

Responses == {NoResponse} \cup [status : {200, 404}, url : {"https", "chrome-error"}]

GotoThrows == [gotoThrows |-> TRUE, response |-> NoResponse, realRequests |-> 0, marker |-> FALSE]

PageLoads ==
    {GotoThrows} \cup
    [gotoThrows : {FALSE}, response : Responses, realRequests : {1, 2}, marker : BOOLEAN]

\* (mutant) the verdict with the homepage threshold for every page
detectNavigationFailure_OneSignalFails(load, isHomepage) ==
    LET signals ==
            (IF load.response = NoResponse THEN <<"NO_RESPONSE">> ELSE <<>>)
            \o (IF load.response.status # NULL /\ load.response.status >= 400
                THEN <<"HTTP_STATUS">> ELSE <<>>)
            \o (IF load.response.url \in {"chrome-error", "about", "data"}
                THEN <<"CHROME_INTERNAL_PAGE">> ELSE <<>>)
            \o (IF load.realRequests <= 1 THEN <<"NO_NETWORK_ACTIVITY">> ELSE <<>>)
            \o (IF load.marker THEN <<"CHROMIUM_ERROR_PAGE">> ELSE <<>>)
    IN IF Len(signals) >= 1 THEN Throw("UNREACHABLE") ELSE Ok(signals)

detectNavigationFailure(load, isHomepage) ==
    LET signals ==
            (IF load.response = NoResponse THEN <<"NO_RESPONSE">> ELSE <<>>)
            \o (IF load.response.status # NULL /\ load.response.status >= 400
                THEN <<"HTTP_STATUS">> ELSE <<>>)
            \o (IF load.response.url \in {"chrome-error", "about", "data"}
                THEN <<"CHROME_INTERNAL_PAGE">> ELSE <<>>)
            \o (IF load.realRequests <= 1 THEN <<"NO_NETWORK_ACTIVITY">> ELSE <<>>)
            \o (IF load.marker THEN <<"CHROMIUM_ERROR_PAGE">> ELSE <<>>)
        threshold == IF isHomepage THEN 1 ELSE 2
    IN IF Len(signals) >= threshold THEN Throw("UNREACHABLE") ELSE Ok(signals)

\* crawlSinglePage up to its verdict: everything after it is caught
crawlSinglePage(load, isHomepage) ==
    IF load.gotoThrows THEN Throw("UNREACHABLE")
    ELSE LET verdict == detectNavigationFailure(load, isHomepage) IN
         IF ~verdict.ok THEN verdict ELSE Ok(load)

\* crawlWebsite after the DNS and SSRF layers, page by page.  input is the
\* load of the homepage and of each page of pagesToCrawl; output holds the
\* position in crawlWebsite, the indexes of the pages in allPageResults (0
\* is the homepage), the next sub-page and the error thrown.
InitCrawl ==
    /\ Quiet
    /\ input \in [home : PageLoads, pagesToCrawl : SeqsUpTo(PageLoads, MaxSubPages)]
    /\ output = [pc |-> "homepage", allPageResults |-> <<>>, next |-> 1, error |-> ""]

CrawlHomepage ==
    /\ output.pc = "homepage"
    /\ LET homeResult == crawlSinglePage(input.home, TRUE) IN
       output' = IF homeResult.ok
                 THEN [output EXCEPT !.pc = "subpages", !.allPageResults = <<0>>]
                 ELSE [output EXCEPT !.pc = "threw", !.error = homeResult.error]
    /\ UNCHANGED <<system, input>>

CrawlSubPage ==
    /\ output.pc = "subpages"
    /\ output.next <= Len(input.pagesToCrawl)
    /\ LET result == crawlSinglePage(input.pagesToCrawl[output.next], FALSE) IN
       output' = IF result.ok
                 THEN [output EXCEPT !.next = @ + 1,
                                     !.allPageResults = Append(@, output.next)]
                 ELSE [output EXCEPT !.next = @ + 1]
    /\ UNCHANGED <<system, input>>

CrawlReturn ==
    /\ output.pc = "subpages"
    /\ output.next > Len(input.pagesToCrawl)
    /\ output' = [output EXCEPT !.pc = "returned"]
    /\ UNCHANGED <<system, input>>

NextCrawl ==
    \/ CrawlHomepage
    \/ CrawlSubPage
    \/ CrawlReturn

SpecCrawl == InitCrawl /\ [][NextCrawl]_vars

\* ---------------------------------------------------------------- scoring
\* A crawl record as far as the score reads it: lengths for the arrays,
\* flags for the rest; trackers is the length of detectTrackers' result.
Fingerprints ==
    [canvasFingerprint : BOOLEAN, webglFingerprint : BOOLEAN, fontFingerprint : BOOLEAN,
     keylogger : BOOLEAN, formSnooping : BOOLEAN, serviceWorker : BOOLEAN,
     beaconCalls : {0, 1}]

CrawlRecords ==
    [cookies : {20, 21}, isHttps : BOOLEAN, fingerprinting : Fingerprints,
     trackingParamsFound : {0, 2}, cspAnalysis : [present : BOOLEAN],
     inlineTrackerScripts : {0, 1}, trackers : 0..MaxTrackers]

Max(a, b) == IF a >= b THEN a ELSE b

Min(a, b) == IF a <= b THEN a ELSE b

\* (mutant) the score without Math.max(0, ...)
calculateScore_NoFloor(crawlData, trackers) ==
    LET fp == crawlData.fingerprinting
        score == 100
            - trackers * 8
            - (IF crawlData.cookies > 20 THEN 10 ELSE 0)
            - (IF ~crawlData.isHttps THEN 20 ELSE 0)
            - (IF fp.canvasFingerprint THEN 15 ELSE 0)
            - (IF fp.webglFingerprint THEN 10 ELSE 0)
            - (IF fp.fontFingerprint THEN 8 ELSE 0)
            - (IF fp.keylogger THEN 15 ELSE 0)
            - (IF fp.formSnooping THEN 8 ELSE 0)
            - (IF fp.beaconCalls > 0 THEN 8 ELSE 0)
            - (IF fp.serviceWorker THEN 5 ELSE 0)
            - (IF crawlData.trackingParamsFound > 0 THEN 10 ELSE 0)
            - (IF ~crawlData.cspAnalysis.present THEN 5 ELSE 0)
            - (IF crawlData.inlineTrackerScripts > 0 THEN 5 ELSE 0)
    IN Min(100, score)

calculateScore(crawlData, trackers) ==
    LET fp == crawlData.fingerprinting
        score == 100
            - trackers * 8
            - (IF crawlData.cookies > 20 THEN 10 ELSE 0)
            - (IF ~crawlData.isHttps THEN 20 ELSE 0)
            - (IF fp.canvasFingerprint THEN 15 ELSE 0)
            - (IF fp.webglFingerprint THEN 10 ELSE 0)
            - (IF fp.fontFingerprint THEN 8 ELSE 0)
            - (IF fp.keylogger THEN 15 ELSE 0)
            - (IF fp.formSnooping THEN 8 ELSE 0)
            - (IF fp.beaconCalls > 0 THEN 8 ELSE 0)
            - (IF fp.serviceWorker THEN 5 ELSE 0)
            - (IF crawlData.trackingParamsFound > 0 THEN 10 ELSE 0)
            - (IF ~crawlData.cspAnalysis.present THEN 5 ELSE 0)
            - (IF crawlData.inlineTrackerScripts > 0 THEN 5 ELSE 0)
    IN Max(0, Min(100, score))

\* (mutant) the thresholds taken strictly
scoreToRiskLevel_Strict(score) ==
    IF score > 80 THEN "LOW"
    ELSE IF score > 60 THEN "MODERATE"
    ELSE IF score > 40 THEN "ELEVATED"
    ELSE "HIGH"

scoreToRiskLevel(score) ==
    IF score >= 80 THEN "LOW"
    ELSE IF score >= 60 THEN "MODERATE"
    ELSE IF score >= 40 THEN "ELEVATED"
    ELSE "HIGH"

\* The score of a crawl record and the riskLevel the worker persists with it
InitScore ==
    /\ Quiet
    /\ input \in CrawlRecords
    /\ output = [pc |-> "crawled", score |-> 0, riskLevel |-> ""]

ScoreRecord ==
    /\ output.pc = "crawled"
    /\ LET score == calculateScore(input, input.trackers) IN
       output' = [pc |-> "persisted", score |-> score, riskLevel |-> scoreToRiskLevel(score)]
    /\ UNCHANGED <<system, input>>

NextScore == ScoreRecord

SpecScore == InitScore /\ [][NextScore]_vars

\* --------------------------------------------------------------- analysis
\* (mutant) a field besides analyzedAt computed from the clock
analyzePrivacy_ClockInCookieCount(crawlData, date) ==
    [score |-> calculateScore(crawlData, crawlData.trackers),
     trackers |-> crawlData.trackers,
     fingerprinting |-> crawlData.fingerprinting,
     meta |-> [isHttps |-> crawlData.isHttps,
               cookieCount |-> crawlData.cookies + date,
               trackingParams |-> crawlData.trackingParamsFound,
               csp |-> crawlData.cspAnalysis,
               analyzedAt |-> date]]

\* analyzePrivacy(crawlData) run when new Date() is date: the fields that
\* depend on what the model keeps of a crawl record
analyzePrivacy(crawlData, date) ==
    [score |-> calculateScore(crawlData, crawlData.trackers),
     trackers |-> crawlData.trackers,
     fingerprinting |-> crawlData.fingerprinting,
     meta |-> [isHttps |-> crawlData.isHttps,
               cookieCount |-> crawlData.cookies,
               trackingParams |-> crawlData.trackingParamsFound,
               csp |-> crawlData.cspAnalysis,
               analyzedAt |-> date]]

\* Crawl records for the analysis run twice
AnalysisRecords ==
    {r \in CrawlRecords :
        /\ r.trackers <= 1 /\ r.cookies = 21 /\ r.trackingParamsFound = 0
        /\ r.inlineTrackerScripts = 0
        /\ r.fingerprinting.beaconCalls = 0
        /\ ~r.fingerprinting.webglFingerprint /\ ~r.fingerprinting.fontFingerprint
        /\ ~r.fingerprinting.formSnooping /\ ~r.fingerprinting.serviceWorker}

NotAnalyzed == [score |-> 0, analyzedAt |-> NULL]

InitAnalysis ==
    /\ Quiet
    /\ input \in AnalysisRecords
    /\ output = [pc |-> "crawled", first |-> NotAnalyzed, second |-> NotAnalyzed]

Analyze ==
    /\ output.pc = "crawled"
    /\ output' = [output EXCEPT !.pc = "analyzed", !.first = analyzePrivacy(input, now)]
    /\ UNCHANGED <<system, input>>

AnalyzeAgain ==
    /\ output.pc = "analyzed"
    /\ output' = [output EXCEPT !.pc = "reanalyzed", !.second = analyzePrivacy(input, now)]
    /\ UNCHANGED <<system, input>>

NextAnalysis ==
    \/ Analyze
    \/ AnalyzeAgain
    \/ Tick

SpecAnalysis == InitAnalysis /\ [][NextAnalysis]_vars

\* ---------------------------------------------------------------- GET /scans
\* A query (page and limit absent or within the schema's limits) and the
\* number of Jobs that match its filter
ListQueries ==
    [page : {NULL} \cup (1..MaxPage), limit : {NULL, 1, 2, 3, 20, 100}, total : 0..MaxTotal]

\* (mutant) hasNext with <= for <
listScans_HasNextInclusive(query) ==
    LET page == IF query.page = NULL THEN 1 ELSE query.page
        limit == IF query.limit = NULL THEN 20 ELSE query.limit
        total == query.total
        skip == (page - 1) * limit
        jobs == Min(limit, Max(0, total - skip))
    IN [data |-> jobs, page |-> page, limit |-> limit, total |-> total,
        totalPages |-> IF total % limit = 0 THEN total \div limit ELSE (total \div limit) + 1,
        hasNext |-> page * limit <= total,
        hasPrev |-> page > 1]

\* The handler: defaults, count and findMany (skip, take), and the
\* pagination block; data is the number of rows returned.
listScans(query) ==
    LET page == IF query.page = NULL THEN 1 ELSE query.page
        limit == IF query.limit = NULL THEN 20 ELSE query.limit
        total == query.total
        skip == (page - 1) * limit
        jobs == Min(limit, Max(0, total - skip))
    IN [data |-> jobs, page |-> page, limit |-> limit, total |-> total,
        totalPages |-> IF total % limit = 0 THEN total \div limit ELSE (total \div limit) + 1,
        hasNext |-> page * limit < total,
        hasPrev |-> page > 1]

InitList ==
    /\ Quiet
    /\ input \in ListQueries
    /\ output = [pc |-> "received"]

ListScans ==
    /\ output.pc = "received"
    /\ output' = [pc |-> "sent", body |-> listScans(input)]
    /\ UNCHANGED <<system, input>>

NextList == ListScans

SpecList == InitList /\ [][NextList]_vars

\* ----------------------------------------------------------- cookie lifetime
\* Math.round of a non-negative quotient n / d
Round(n, d) == (2 * n + d) \div (2 * d)

\* (mutant) a cookie of exactly one year still medium
lifetimeRisk_YearIsMedium(days) ==
    IF days < 0 THEN [label |-> <<"Expired">>, risk |-> "safe", days |-> days]
    ELSE IF days < 30 THEN [label |-> <<days, "d">>, risk |-> "low", days |-> days]
    ELSE IF days <= 365 THEN [label |-> <<Round(days, 30), "mo">>, risk |-> "medium", days |-> days]
    ELSE IF days < 730 THEN [label |-> <<Round(days, 365), "yr">>, risk |-> "high", days |-> days]
    ELSE [label |-> <<Round(days, 365), "yr">>, risk |-> "critical", days |-> days]

\* lifetimeRisk(days) of a cookie that has an expiry (days is not null)
lifetimeRisk(days) ==
    IF days < 0 THEN [label |-> <<"Expired">>, risk |-> "safe", days |-> days]
    ELSE IF days < 30 THEN [label |-> <<days, "d">>, risk |-> "low", days |-> days]
    ELSE IF days < 365 THEN [label |-> <<Round(days, 30), "mo">>, risk |-> "medium", days |-> days]
    ELSE IF days < 730 THEN [label |-> <<Round(days, 365), "yr">>, risk |-> "high", days |-> days]
    ELSE [label |-> <<Round(days, 365), "yr">>, risk |-> "critical", days |-> days]

\* Lifetimes next to every comparison the function makes
LifetimeDays == UNION {{b - 1, b, b + 1} : b \in {0, 30, 365, 730}}

InitLifetime ==
    /\ Quiet
    /\ input \in [d1 : LifetimeDays, d2 : LifetimeDays]
    /\ output = [pc |-> "cookies"]

RateLifetimes ==
    /\ output.pc = "cookies"
    /\ output' = [pc |-> "rated", first |-> lifetimeRisk(input.d1), second |-> lifetimeRisk(input.d2)]
    /\ UNCHANGED <<system, input>>

NextLifetime == RateLifetimes

SpecLifetime == InitLifetime /\ [][NextLifetime]_vars

\* ------------------------------------------------------------------ claims
Live == {"PENDING", "RUNNING"}

Terminal == {"SUCCESS", "FAILED"}

\* C1: for every canonical URL, at most one Job with that targetUrl is
\* PENDING or RUNNING at any time, under every interleaving of submissions.
C1_AtMostOneLiveJobPerUrl ==
    \A i \in Ids, j \in Ids :
        (i # j /\ scanJobs[i].targetUrl = scanJobs[j].targetUrl)
            => ~(scanJobs[i].status \in Live /\ scanJobs[j].status \in Live)

\* C2: every SUCCESS Job has exactly one Result row with its id.
C2_SuccessHasExactlyOneResult ==
    \A id \in Ids : scanJobs[id].status = "SUCCESS" => ResultRows(id) = 1

\* C2 witness: a Job is SUCCESS with its Result although its queue job was
\* retried or redelivered on the way.
C2_Witness ==
    \E id \in Ids :
        /\ scanJobs[id].status = "SUCCESS"
        /\ ResultRows(id) = 1
        /\ scanQueue[id].attemptsMade + scanQueue[id].stalledCounter > 0

\* C3: every Result row belongs to a Job whose status is SUCCESS.
C3_ResultBelongsToSuccessJob ==
    \A id \in DOMAIN scanResults :
        ResultRows(id) > 0 => (id \in Ids /\ scanJobs[id].status = "SUCCESS")

Forward(a, b) ==
    \/ a = b
    \/ a = "PENDING"
    \/ (a = "RUNNING" /\ b \in Terminal)
    \/ (a = "FAILED" /\ b = "RUNNING")

\* C4: a Job's status only moves forward, PENDING to RUNNING to SUCCESS or
\* FAILED, but for FAILED to RUNNING on a retry; no write moves a SUCCESS
\* Job to RUNNING or FAILED.
C4_StatusMovesForward ==
    [][\A id \in Ids : id \in DOMAIN scanJobs' =>
            Forward(scanJobs[id].status, scanJobs'[id].status)]_vars

\* C5: completedAt is non-null exactly when the status is SUCCESS or FAILED.
C5_CompletedAtIffTerminal ==
    \A id \in Ids : (scanJobs[id].completedAt # NULL) <=> (scanJobs[id].status \in Terminal)

\* A hostname that the DNS resolver or the SSRF guard refuses whatever the
\* resolver answers: reserved, private-zone, unresolvable or resolving to a
\* private address.
Refused(hostname) ==
    \/ hostname \in BLOCKED_HOSTNAMES
    \/ BLOCKED_HOSTNAME_PATTERNS(hostname)
    \/ \A outcome \in DnsOutcomes(hostname) :
          outcome.kind # "address" \/ PRIVATE_IP_PATTERNS(outcome.address)

\* C6: a submission whose hostname fails DNS resolution, is reserved or
\* private-zone, or resolves to a private address is answered 400 by
\* admission, before any dedup key, Job row or queue entry exists for it.
C6_RefusedHostRejectedAtAdmission ==
    /\ \A u \in DOMAIN redisKeys : ~Refused(u.hostname)
    /\ \A id \in Ids : ~Refused(scanJobs[id].targetUrl.hostname)
    /\ \A j \in DOMAIN scanQueue : ~Refused(scanQueue[j].data.url.hostname)
    /\ \A r \in Reqs : reqs[r].pc # "idle" => ~Refused(reqs[r].url.hostname)
    /\ (reply.url # NoUrl /\ Refused(reply.url.hostname)) => reply.code = 400

\* C7: when a second submission of a URL arrives before the first's Job has
\* completed, one queue entry exists for the URL and the second answer is a
\* 202 with the first's jobId, wherever the second request is interleaved.
C7_SecondSubmissionJoinsFirst ==
    /\ \A i \in DOMAIN scanQueue, j \in DOMAIN scanQueue :
          (i < j /\ scanQueue[i].data.url = scanQueue[j].data.url)
              => ~(i \in Ids /\ scanJobs[i].status \in Live)
    /\ \A i \in Ids :
          (reply.code = 202 /\ scanJobs[i].targetUrl = reply.url /\ scanJobs[i].status \in Live)
              => reply.jobId <= i

\* The request that a Submit step serves, and the canonical URL it computed.
Submitter == CHOOSE r \in Reqs : reqs[r].pc = "idle" /\ \A q \in Reqs : q < r => reqs[q].pc # "idle"

\* SUCCESS Jobs of url completed within the last ten minutes.
CacheHits(url) ==
    {id \in Ids : /\ scanJobs[id].targetUrl = url
                  /\ scanJobs[id].status = "SUCCESS"
                  /\ scanJobs[id].completedAt # NULL
                  /\ now - scanJobs[id].completedAt <= DEDUP_WINDOW_MS}

\* C8: when a SUCCESS Job of the URL completed within the last 10 minutes
\* exists at the DB check, the answer is 200, cached, SUCCESS, with the id of
\* the most recently completed such Job, and no key, Job or queue entry is
\* added.
C8_CacheHitAnswersWithoutSideEffects ==
    [][(submitted' = submitted + 1) =>
         LET r == Submitter
             url == IF reqs'[r].pc = "idle" THEN reply'.url ELSE reqs'[r].url
         IN (url # NoUrl /\ CacheHits(url) # {}) =>
               /\ reqs'[r].pc = "idle"
               /\ reply'.code = 200 /\ reply'.cached /\ reply'.status = "SUCCESS"
               /\ reply'.url = url
               /\ reply'.jobId \in CacheHits(url)
               /\ \A other \in CacheHits(url) :
                     scanJobs[other].completedAt <= scanJobs[reply'.jobId].completedAt
               /\ UNCHANGED <<redisKeys, scanJobs, scanResults, scanQueue, nextId>>]_vars

\* C8 witness: a cached answer chose the later of two SUCCESS Jobs of the
\* URL that both completed within the window.
C8_Witness ==
    /\ reply.code = 200 /\ reply.cached
    /\ \E other \in CacheHits(reply.url) :
          /\ reply.jobId \in CacheHits(reply.url)
          /\ scanJobs[other].completedAt < scanJobs[reply.jobId].completedAt

EnqueueFailedShape(row) ==
    /\ row.status = "FAILED"
    /\ row.errorMessage = "Failed to enqueue scan job"
    /\ row.completedAt # NULL

\* The step in which request r answers 500 after scanQueue.add threw
AnswersEnqueueFailure(r) == reqs[r].pc = "enqueue_failed" /\ reqs'[r].pc = "idle"

\* The step in which request r answers 500 after db.scanJob.create threw
AnswersCreateFailure(r) ==
    /\ reqs[r].pc = "create" /\ reqs'[r].pc = "idle"
    /\ reply'.error = "Failed to create scan job"

KeyPresentNext(url) == url \in DOMAIN redisKeys' /\ now' < redisKeys'[url]

C10_DeletedJobIsNoOpSuccess ==
    [][\A s \in Slots :
          (slots[s].pc = "update" /\ slots[s].jobId \notin Ids /\ slots'[s] # slots[s]) =>
              /\ scanQueue'[slots[s].jobId].state = "completed"
              /\ scanQueue'[slots[s].jobId].attemptsMade = scanQueue[slots[s].jobId].attemptsMade
              /\ dlq' = dlq
              /\ scanJobs' = scanJobs /\ scanResults' = scanResults]_vars

\* C11: a Job row is never deleted while its status is RUNNING, however
\* the delete request's status read and row delete interleave with the
\* worker's RUNNING update.
C11_RunningJobIsNotDeleted ==
    [][\A id \in Ids : id \notin DOMAIN scanJobs' => scanJobs[id].status # "RUNNING"]_vars

\* The step in which an attempt of queue job j ends by an exception
AttemptThrows(j) == scanQueue'[j].attemptsMade = scanQueue[j].attemptsMade + 1

\* The step in which the 'failed' handler of queue job j writes FAILED
HandlerMarksFailed(j) ==
    \E s \in Slots : slots[s].pc = "markfailed" /\ slots[s].jobId = j /\ slots'[s].pc = "idle"

\* C12: an attempt that throws before the 3rd is released for retry and
\* leaves the Job non-terminal with no DLQ record; the 3rd adds exactly one
\* DLQ record for the job and the handler sets the Job FAILED with
\* completedAt and the error message; no job is attempted more than 3 times.
C12_RetryThenDeadLetter ==
    [][\A j \in DOMAIN scanQueue :
          /\ (AttemptThrows(j) /\ scanQueue'[j].attemptsMade < attempts) =>
                /\ scanQueue'[j].state = "waiting"
                /\ dlq' = dlq
                /\ j \in DOMAIN scanJobs' /\ scanJobs'[j].status \notin Terminal
          /\ (AttemptThrows(j) /\ scanQueue'[j].attemptsMade >= attempts) =>
                /\ scanQueue'[j].state = "failed"
                /\ Len(dlq') = Len(dlq) + 1
                /\ dlq'[Len(dlq')].jobId = j /\ dlq'[Len(dlq')].attempts = attempts
                /\ \A i \in 1..Len(dlq) : dlq[i].jobId # j
          /\ HandlerMarksFailed(j) =>
                /\ j \in DOMAIN scanJobs'
                /\ scanJobs'[j].status = "FAILED"
                /\ scanJobs'[j].completedAt # NULL
                /\ scanJobs'[j].errorMessage # ""
          /\ scanQueue'[j].attemptsMade <= attempts]_vars

\* C13: under fair scheduling of the request handlers and the worker, every
\* Job that admission created eventually has status SUCCESS or FAILED.
C13_EveryJobTerminates ==
    \A id \in 1..MaxSubmits :
        [](id \in Ids => <>(id \in Ids /\ scanJobs[id].status \in Terminal))

\* The failure signals of a page load, counted one by one
FiredSignals(load) ==
    (IF load.response = NoResponse THEN 1 ELSE 0)
    + (IF load.response # NoResponse /\ load.response.status >= 400 THEN 1 ELSE 0)
    + (IF load.response.url = "chrome-error" THEN 1 ELSE 0)
    + (IF load.realRequests <= 1 THEN 1 ELSE 0)
    + (IF load.marker THEN 1 ELSE 0)

InResults(i) == \E k \in 1..Len(output.allPageResults) : output.allPageResults[k] = i

ReservedOrPrivateZone(hostname) ==
    \/ hostname \in {<<"localhost">>, <<"0", "0", "0", "0">>,
                     <<"metadata", "google", "internal">>, <<"169", "254", "169", "254">>}
    \/ /\ Len(hostname) >= 2
       /\ hostname[Len(hostname)] \in {"local", "internal", "corp", "lan", "intranet"}

\* C15: a submission whose hostname is reserved or private-zone is rejected
\* with an SSRF_BLOCKED error, whatever the resolver answers for it.
C15_ReservedHostGetsSsrfError ==
    (input.raw.scheme \in {"none", "http", "https"} /\ ReservedOrPrivateZone(input.raw.host)) =>
        /\ output.pc # "browser"
        /\ output.pc = "rejected" =>
              output.error \in {"SSRF_BLOCKED_HOSTNAME", "SSRF_BLOCKED_PATTERN"}

HexValue(c) ==
    CASE c = "0" -> 0 [] c = "1" -> 1 [] c = "2" -> 2 [] c = "3" -> 3 [] c = "4" -> 4
      [] c = "5" -> 5 [] c = "6" -> 6 [] c = "7" -> 7 [] c = "8" -> 8 [] c = "9" -> 9
      [] c = "a" -> 10 [] c = "b" -> 11 [] c = "c" -> 12 [] c = "d" -> 13
      [] c = "e" -> 14 [] c = "f" -> 15

\* The first 16 bits of an IPv6 address in text form ("::..." starts with 0)
FirstGroup(t) ==
    LET k == CHOOSE n \in 0..Len(t) :
                 /\ n = Len(t) \/ t[n + 1] = ":"
                 /\ \A i \in 1..n : t[i] # ":"
        value[i \in 0..k] == IF i = 0 THEN 0 ELSE value[i - 1] * 16 + HexValue(t[i])
    IN value[k]

\* 127/8, 10/8, 192.168/16, 172.16/12, 169.254/16, 100.64/10, 0/8, ::1,
\* fc00::/7, fe80::/10
InPrivateRange(address) ==
    IF address.family = 4
    THEN LET a == address.octets[1]
             b == address.octets[2]
         IN \/ a \in {127, 10, 0}
            \/ a = 192 /\ b = 168
            \/ a = 172 /\ b \div 16 = 1
            \/ a = 169 /\ b = 254
            \/ a = 100 /\ b \div 64 = 1
    ELSE \/ address.text = <<":", ":", "1">>
         \/ FirstGroup(address.text) \div 512 = 126
         \/ FirstGroup(address.text) \div 64 = 1018

\* C16: for a hostname that is neither reserved nor private-zone,
\* assertNotPrivate throws SSRF_PRIVATE_IP for every address in the listed
\* ranges and returns for every IPv4 address outside them.
C16_GuardCoversPrivateRanges ==
    output.pc # "called" =>
        /\ InPrivateRange(input.resolvedAddress) =>
              (output.pc = "threw" /\ output.error = "SSRF_PRIVATE_IP")
        /\ (input.resolvedAddress.family = 4 /\ ~InPrivateRange(input.resolvedAddress)) =>
              output.pc = "returned"

\* C17: the score is an integer between 0 and 100, and the riskLevel
\* persisted with it is LOW iff score >= 80, MODERATE iff 60 <= score < 80,
\* ELEVATED iff 40 <= score < 60, HIGH iff score < 40.
C17_ScoreInRangeAndRiskLevel ==
    output.pc = "persisted" =>
        /\ output.score \in 0..100
        /\ (output.riskLevel = "LOW") <=> (output.score >= 80)
        /\ (output.riskLevel = "MODERATE") <=> (60 <= output.score /\ output.score < 80)
        /\ (output.riskLevel = "ELEVATED") <=> (40 <= output.score /\ output.score < 60)
        /\ (output.riskLevel = "HIGH") <=> (output.score < 40)

\* C17 witness: a record scored exactly at a threshold
C17_Witness == output.pc = "persisted" /\ output.score = 60 /\ output.riskLevel = "MODERATE"

\* The deductions of C18 for a crawl record
Deductions(record) ==
    8 * record.trackers
    + (IF record.cookies > 20 THEN 10 ELSE 0)
    + (IF record.isHttps THEN 0 ELSE 20)
    + (IF record.fingerprinting.canvasFingerprint THEN 15 ELSE 0)
    + (IF record.fingerprinting.webglFingerprint THEN 10 ELSE 0)
    + (IF record.fingerprinting.fontFingerprint THEN 8 ELSE 0)
    + (IF record.fingerprinting.keylogger THEN 15 ELSE 0)
    + (IF record.fingerprinting.formSnooping THEN 8 ELSE 0)
    + (IF record.fingerprinting.beaconCalls > 0 THEN 8 ELSE 0)
    + (IF record.fingerprinting.serviceWorker THEN 5 ELSE 0)
    + (IF record.trackingParamsFound > 0 THEN 10 ELSE 0)
    + (IF record.cspAnalysis.present THEN 0 ELSE 5)
    + (IF record.inlineTrackerScripts > 0 THEN 5 ELSE 0)

\* The records that differ from record by one signal turned on or one more
\* tracker
OneMoreSignal(record) ==
    {r \in { [record EXCEPT !.trackers = Min(MaxTrackers, @ + 1)],
             [record EXCEPT !.cookies = 21],
             [record EXCEPT !.isHttps = FALSE],
             [record EXCEPT !.fingerprinting.canvasFingerprint = TRUE],
             [record EXCEPT !.fingerprinting.webglFingerprint = TRUE],
             [record EXCEPT !.fingerprinting.fontFingerprint = TRUE],
             [record EXCEPT !.fingerprinting.keylogger = TRUE],
             [record EXCEPT !.fingerprinting.formSnooping = TRUE],
             [record EXCEPT !.fingerprinting.beaconCalls = 1],
             [record EXCEPT !.fingerprinting.serviceWorker = TRUE],
             [record EXCEPT !.trackingParamsFound = 2],
             [record EXCEPT !.cspAnalysis.present = FALSE],
             [record EXCEPT !.inlineTrackerScripts = 1] } : r # record}

UrlErrors ==
    {"URL_MISSING", "URL_EMPTY", "URL_MALFORMED", "URL_INVALID_PROTOCOL", "URL_INVALID_HOSTNAME",
     "URL_NO_TLD", "URL_RAW_IP"}

\* A hostname that is an IPv4 address in dotted-decimal form
DottedQuad(hostname) ==
    /\ Len(hostname) = 4
    /\ \A i \in 1..4 : hostname[i] \in {"0", "1", "10", "127", "169", "254"}

\* C20 as stated: an input without a scheme whose hostname has a dot is
\* accepted by normalizeUrl, which returns the canonical https URL of it.
C20_SchemelessDottedHostAccepted ==
    (output.pc # "received" /\ input.raw.scheme = "none" /\ Len(input.raw.host) >= 2) =>
        /\ output.error \notin UrlErrors
        /\ output.url = [protocol |-> "https", hostname |-> input.raw.host]

\* C20 amended: the same for hostnames that are not IP addresses.
C20_SchemelessDomainAccepted ==
    (/\ output.pc # "received" /\ input.raw.scheme = "none"
     /\ Len(input.raw.host) >= 2 /\ ~DottedQuad(input.raw.host)) =>
        /\ output.error \notin UrlErrors
        /\ output.url = [protocol |-> "https", hostname |-> input.raw.host]

\* C20 witness: "example.com" was normalized to https://example.com/
C20_Witness ==
    /\ input.raw = [scheme |-> "none", host |-> <<"example", "com">>]
    /\ output.pc = "normalized"
    /\ output.url = [protocol |-> "https", hostname |-> <<"example", "com">>]

\* C21: an input whose host is an IPv4 or IPv6 literal is rejected by
\* normalizeUrl with URL_RAW_IP, and the client reads the 'not supported'
\* message.
C21_IpLiteralGetsRawIp ==
    (/\ output.pc # "received"
     /\ input.raw.scheme \in {"none", "http", "https"}
     /\ (DottedQuad(input.raw.host) \/ input.raw.host \in {<<"[::1]">>, <<"[2001:db8::1]">>})) =>
        /\ output.pc = "rejected"
        /\ output.error = "URL_RAW_IP"
        /\ friendlyError(output.error) = "not supported"

\* C22: an input with a scheme other than http or https is rejected by
\* normalizeUrl with URL_INVALID_PROTOCOL and no other code.
C22_OtherSchemeGetsInvalidProtocol ==
    (output.pc # "received" /\ input.raw.scheme \in {"ftp", "file", "javascript"}) =>
        /\ output.pc = "rejected"
        /\ output.error = "URL_INVALID_PROTOCOL"

\* C23: GET /scan/:id answers 404 exactly when no Job has the id and never
\* fails otherwise; its result is non-null exactly when the Job is SUCCESS
\* and it carries an errorMessage field exactly when the Job is FAILED.
C23_GetScanShape ==
    [][\A id \in 1..(MaxSubmits + 1) :
          (output' # output /\ output'.id = id) =>
              /\ output'.code \in {200, 404}
              /\ (output'.code = 404) <=> (id \notin Ids)
              /\ id \in Ids =>
                    /\ output'.status = scanJobs[id].status
                    /\ (output'.result # NULL) <=> (scanJobs[id].status = "SUCCESS")
                    /\ (output'.errorMessage # "absent") <=> (scanJobs[id].status = "FAILED")]_vars

\* C23 witness: a SUCCESS Job was read with its result
C23_Witness ==
    /\ output.code = 200 /\ output.status = "SUCCESS" /\ output.result # NULL
    /\ output.id \in Ids /\ ResultRows(output.id) = 1

\* C24: GET /scans returns at most limit rows, totalPages = ceil(total /
\* limit), hasPrev iff page > 1, hasNext iff page * limit < total iff page <
\* totalPages; page defaults to 1 and limit to 20.
C24_Pagination ==
    output.pc = "sent" =>
        LET b == output.body IN
        /\ b.page = (IF input.page = NULL THEN 1 ELSE input.page)
        /\ b.limit = (IF input.limit = NULL THEN 20 ELSE input.limit)
        /\ b.total = input.total
        /\ b.data <= b.limit
        /\ b.totalPages * b.limit >= b.total
        /\ (b.totalPages - 1) * b.limit < b.total
        /\ b.hasPrev <=> (b.page > 1)
        /\ b.hasNext <=> (b.page * b.limit < b.total)
        /\ b.hasNext <=> (b.page < b.totalPages)

\* C24 witness: a middle page of a listing whose last page is not full
C24_Witness ==
    /\ output.pc = "sent"
    /\ output.body.hasNext /\ output.body.hasPrev
    /\ output.body.total % output.body.limit # 0
    /\ output.body.data = output.body.limit

\* C25: on shutdown no connection (queue, Redis, database) is closed while
\* a job attempt is unfinished, the writes of its completion or of its
\* failure handling (DLQ record, FAILED update) included.
C25_ConnectionsCloseAfterAttempts ==
    (Closed # {} /\ shutdown # "exited") => \A s \in Slots : slots[s].pc = "idle"

\* C30: the gauge active_jobs always equals the number of job attempts
\* currently executing (past startJobTimer and not yet ended), also when
\* attempts of one jobId overlap.
C30_ActiveJobsCountsAttempts ==
    snapshot(metrics).active_jobs = Cardinality({s \in Slots : slots[s].pc \in {"crawl", "progress"}})

\* The order of the lifetime buckets
BucketRank(risk) ==
    CASE risk = "safe" -> 0 [] risk = "low" -> 1 [] risk = "medium" -> 2
      [] risk = "high" -> 3 [] risk = "critical" -> 4

\* C26: lifetime bucketing is monotone (d1 <= d2 gives a bucket no higher for
\* d1 than for d2, in safe < low < medium < high < critical), with the
\* boundaries at 30, 365 and 730 days.
C26_LifetimeBucketsMonotone ==
    output.pc = "rated" =>
        /\ input.d1 <= input.d2 => BucketRank(output.first.risk) <= BucketRank(output.second.risk)
        /\ (output.first.risk = "low") <=> (0 <= input.d1 /\ input.d1 < 30)
        /\ (output.first.risk = "medium") <=> (30 <= input.d1 /\ input.d1 < 365)
        /\ (output.first.risk = "high") <=> (365 <= input.d1 /\ input.d1 < 730)
        /\ (output.first.risk = "critical") <=> (730 <= input.d1)

\* C26 witness: the two sides of the one-year boundary
C26_Witness ==
    /\ output.pc = "rated"
    /\ input.d1 = 364 /\ input.d2 = 365
    /\ output.first.risk = "medium" /\ output.second.risk = "high"

\* The request that created Job id has not returned yet
AdmissionPending(id) == \E r \in Reqs : reqs[r].pc # "idle" /\ reqs[r].job = id

C28_KeyPresentWhileJobLive ==
    \A id \in Ids : scanJobs[id].status \in {"PENDING", "RUNNING"} => KeyPresent(scanJobs[id].targetUrl)

\* C29: the key of a URL is deleted only by the request whose SET NX
\* acquired it; a request that did not acquire it never deletes it.
C29_OnlyAcquirerDeletesKey ==
    [][\A r \in Reqs :
          (/\ reqs[r].pc \in {"create", "enqueue_failed"}
           /\ reqs'[r].pc = "idle"
           /\ KeyPresent(reqs[r].url)
           /\ reqs[r].url \notin DOMAIN redisKeys') => reqs[r].lockAcquired]_vars

====
